---- MODULE Spec2Model ----
(***************************************************************************)
(* Model of Buffer (code/buffer/buffer.cpp): a std::vector<char> with a    *)
(* read index and a write index.                                           *)
(*                                                                         *)
(* Pointers into the vector are modelled as 0-based indices, size_t as the *)
(* integers modulo SizeMod, and the vector as a sequence (element i of the *)
(* vector is element i + 1 of the sequence).  A Buffer object is a record  *)
(* [buffer_, readPos_, writePos_]; every member function is an operator    *)
(* from the object (and its arguments) to the object after the call, and   *)
(* every action applies one member function to the state variables.  other *)
(* is a second Buffer object, the argument of Append(const Buffer &).      *)
(***************************************************************************)
EXTENDS Integers, Sequences, FiniteSets, TLC

VARIABLES buffer_, readPos_, writePos_, other, last

vars == <<buffer_, readPos_, writePos_, other, last>>

-----------------------------------------------------------------------------
(* Bounds of the model. *)

\* size_t is the integers modulo SizeMod (2^64 in the build, scaled down).
SizeMod == 16

\* Largest vector the allocator hands out; a resize beyond it is not explored.
MaxCap == 4

\* Largest initBuffSize tried.
MaxInitCap == 2

\* Longest payload handed to Append.
MaxLen == 2

\* sizeof(buff) in ReadFd (65535 in the build, scaled down).
ScratchSize == 2

\* Byte values: 0 is the value of a fresh or memset byte, 1 and 2 are data.
Bytes == {0, 1, 2}
Data == {1, 2}

\* errno values a failed readv/write leaves behind (EINTR, EAGAIN).
ErrnoSet == {4, 11}

SizeT == 0 .. (SizeMod - 1)

-----------------------------------------------------------------------------
(* Helpers. *)

Min(a, b) == IF a <= b THEN a ELSE b

\* vector<char>(n): n value-initialised chars.
Zeros(n) == [i \in 1 .. n |-> 0]

\* All byte strings over Data of length 0 .. n.
Strings(n) == UNION {[1 .. k -> Data] : k \in 0 .. n}

\* The n bytes a descriptor delivers: alternating data bytes, starting with first.
Stream(first, n) == [i \in 1 .. n |-> IF i % 2 = 1 THEN first ELSE 3 - first]

\* std::copy(src, src + Len(src), &buf[pos]); writes past the end are dropped.
CopyInto(buf, pos, src) ==
    [i \in 1 .. Len(buf) |->
        IF i > pos /\ i <= pos + Len(src) THEN src[i - pos] ELSE buf[i]]

\* The chars in [from, to) of the vector.
Range(buf, from, to) ==
    [i \in 1 .. (IF to > from THEN Min(to, Len(buf)) - from ELSE 0) |-> buf[from + i]]

Buf(b, r, w) == [buffer_ |-> b, readPos_ |-> r, writePos_ |-> w]

\* The object held in the state variables, before and after a step.
self == Buf(buffer_, readPos_, writePos_)
self2 == Buf(buffer_', readPos_', writePos_')

-----------------------------------------------------------------------------
(* Member functions. *)

Buffer(initBuffSize) == Buf(Zeros(initBuffSize), 0, 0)

WritableBytes(s) == (Len(s.buffer_) - s.writePos_) % SizeMod

ReadableBytes(s) == (s.writePos_ - s.readPos_) % SizeMod

PrependableBytes(s) == s.readPos_

\* Peek() as an index, and the chars a caller may read through it.
Peek(s) == s.readPos_

Readable(s) == Range(s.buffer_, s.readPos_, s.writePos_)

BeginWrite(s) == s.writePos_

\* buffer_.resize(n): keeps the first n chars, value-initialises new ones.
Resize(buf, n) ==
    [i \in 1 .. n |-> IF i <= Len(buf) THEN buf[i] ELSE 0]

\* MakeSpace_ that also grows when the request equals the reclaimable space.
MakeSpace_GrowAtBoundary(s, len) ==
    IF (WritableBytes(s) + PrependableBytes(s)) % SizeMod <= len
    THEN Buf(Resize(s.buffer_, (s.writePos_ + len + 1) % SizeMod),
             s.readPos_, s.writePos_)
    ELSE LET readable == ReadableBytes(s)
         IN  Buf(CopyInto(s.buffer_, 0, Range(s.buffer_, s.readPos_, s.writePos_)),
                 0, readable)

\* MakeSpace_ whose second branch resets the indices without moving the bytes.
MakeSpace_NoMove(s, len) ==
    IF (WritableBytes(s) + PrependableBytes(s)) % SizeMod < len
    THEN Buf(Resize(s.buffer_, (s.writePos_ + len + 1) % SizeMod),
             s.readPos_, s.writePos_)
    ELSE Buf(s.buffer_, 0, ReadableBytes(s))

MakeSpace_(s, len) ==
    IF (WritableBytes(s) + PrependableBytes(s)) % SizeMod < len
    THEN Buf(Resize(s.buffer_, (s.writePos_ + len + 1) % SizeMod),
             s.readPos_, s.writePos_)
    ELSE LET readable == ReadableBytes(s)
         IN  Buf(CopyInto(s.buffer_, 0, Range(s.buffer_, s.readPos_, s.writePos_)),
                 0, readable)

\* Which branch of MakeSpace_ a request for len bytes takes, if any.
SpaceBranch(s, len) ==
    IF len > WritableBytes(s)
    THEN IF (WritableBytes(s) + PrependableBytes(s)) % SizeMod < len
         THEN "grow" ELSE "compact"
    ELSE "none"

\* EnsureWriteable that calls MakeSpace_ without comparing first.
EnsureWriteable_Always(s, len) ==
    LET t == MakeSpace_(s, len)
    IN  [s |-> t, ok |-> len <= WritableBytes(t)]

\* The result is the object after the call and whether the trailing assert
\* held (a build without NDEBUG stops the process when it does not).
EnsureWriteable(s, len) ==
    LET t == IF len > WritableBytes(s) THEN MakeSpace_(s, len) ELSE s
    IN  [s |-> t, ok |-> len <= WritableBytes(t)]

HasWritten(s, len) == Buf(s.buffer_, s.readPos_, (s.writePos_ + len) % SizeMod)

\* Retrieve that resets both indices and clears the vector once everything
\* readable is consumed.
Retrieve_ResetWhenEmpty(s, len) ==
    IF len < ReadableBytes(s)
    THEN Buf(s.buffer_, (s.readPos_ + len) % SizeMod, s.writePos_)
    ELSE Buf(Zeros(Len(s.buffer_)), 0, 0)

Retrieve(s, len) == Buf(s.buffer_, (s.readPos_ + len) % SizeMod, s.writePos_)

\* end is the index the pointer designates.
RetrieveUntil(s, end) ==
    [s |-> Retrieve(s, (end - Peek(s)) % SizeMod), ok |-> Peek(s) <= end]

\* RetrieveAll that releases the vector instead of zeroing it.
RetrieveAll_Clear(s) == Buf(<<>>, 0, 0)

RetrieveAll(s) == Buf(Zeros(Len(s.buffer_)), 0, 0)

\* RetrieveAllToStr that builds the string after RetrieveAll.
RetrieveAllToStr_Late(s) == [s |-> RetrieveAll(s), str |-> Readable(RetrieveAll(s))]

RetrieveAllToStr(s) == [s |-> RetrieveAll(s), str |-> Readable(s)]

\* Append that copies without calling EnsureWriteable first.
BufferAppend_NoEnsure(s, str) ==
    [s |-> HasWritten(Buf(CopyInto(s.buffer_, BeginWrite(s), str),
                          s.readPos_, s.writePos_), Len(str)),
     ok |-> TRUE]

BufferAppend(s, str) ==
    LET e == EnsureWriteable(s, Len(str))
    IN  [s |-> HasWritten(Buf(CopyInto(e.s.buffer_, BeginWrite(e.s), str),
                              e.s.readPos_, e.s.writePos_), Len(str)),
         ok |-> e.ok]

\* Append(const Buffer &) that empties the buffer it copied from.
AppendBuffer_Move(s, buff) ==
    LET a == BufferAppend(s, Range(buff.buffer_, Peek(buff),
                                   Peek(buff) + ReadableBytes(buff)))
    IN  [s |-> a.s, buff |-> RetrieveAll(buff), ok |-> a.ok]

\* Append(const Buffer &buff), buff being another object than s: the result is
\* s and buff after the call.
AppendBuffer(s, buff) ==
    LET a == BufferAppend(s, Range(buff.buffer_, Peek(buff),
                                   Peek(buff) + ReadableBytes(buff)))
    IN  [s |-> a.s, buff |-> buff, ok |-> a.ok]

\* ReadFd that compares with < : a read of exactly the writable count takes
\* the last branch.
ReadFd_Strict(s, err, rv) ==
    LET writeable == WritableBytes(s)
        filled == CopyInto(s.buffer_, BeginWrite(s),
                           SubSeq(rv.data, 1, Min(rv.len, writeable)))
    IN  IF rv.len < 0
        THEN [s |-> s, Errno |-> rv.errno, ret |-> rv.len,
              branch |-> "error", ok |-> TRUE]
        ELSE IF rv.len < writeable
        THEN [s |-> Buf(filled, s.readPos_, (s.writePos_ + rv.len) % SizeMod),
              Errno |-> err, ret |-> rv.len,
              branch |-> "direct", ok |-> TRUE]
        ELSE LET a == BufferAppend(Buf(filled, s.readPos_, Len(s.buffer_)),
                                   SubSeq(rv.data, writeable + 1, rv.len))
             IN  [s |-> a.s, Errno |-> err, ret |-> rv.len,
                  branch |-> "overflow", ok |-> a.ok]

\* ReadFd that leaves writePos_ where it was before appending the overflow.
ReadFd_NoFill(s, err, rv) ==
    LET writeable == WritableBytes(s)
        filled == CopyInto(s.buffer_, BeginWrite(s),
                           SubSeq(rv.data, 1, Min(rv.len, writeable)))
    IN  IF rv.len < 0
        THEN [s |-> s, Errno |-> rv.errno, ret |-> rv.len,
              branch |-> "error", ok |-> TRUE]
        ELSE IF rv.len <= writeable
        THEN [s |-> Buf(filled, s.readPos_, (s.writePos_ + rv.len) % SizeMod),
              Errno |-> err, ret |-> rv.len,
              branch |-> "direct", ok |-> TRUE]
        ELSE LET a == BufferAppend(Buf(filled, s.readPos_, s.writePos_),
                                   SubSeq(rv.data, writeable + 1, rv.len))
             IN  [s |-> a.s, Errno |-> err, ret |-> rv.len,
                  branch |-> "overflow", ok |-> a.ok]

\* ReadFd that adds the result to writePos_ also when readv failed.
ReadFd_AdvanceOnError(s, err, rv) ==
    LET writeable == WritableBytes(s)
        filled == CopyInto(s.buffer_, BeginWrite(s),
                           SubSeq(rv.data, 1, Min(rv.len, writeable)))
    IN  IF rv.len < 0
        THEN [s |-> Buf(s.buffer_, s.readPos_, (s.writePos_ + rv.len) % SizeMod),
              Errno |-> rv.errno, ret |-> rv.len,
              branch |-> "error", ok |-> TRUE]
        ELSE IF rv.len <= writeable
        THEN [s |-> Buf(filled, s.readPos_, (s.writePos_ + rv.len) % SizeMod),
              Errno |-> err, ret |-> rv.len,
              branch |-> "direct", ok |-> TRUE]
        ELSE LET a == BufferAppend(Buf(filled, s.readPos_, Len(s.buffer_)),
                                   SubSeq(rv.data, writeable + 1, rv.len))
             IN  [s |-> a.s, Errno |-> err, ret |-> rv.len,
                  branch |-> "overflow", ok |-> a.ok]

\* rv is what readv did: rv.len its result, rv.data the rv.len bytes the
\* descriptor delivered (iov[0] is filled first, then buff), rv.errno the errno
\* it set on failure.  err is the caller's *Errno before the call.
ReadFd(s, err, rv) ==
    LET writeable == WritableBytes(s)
        filled == CopyInto(s.buffer_, BeginWrite(s),
                           SubSeq(rv.data, 1, Min(rv.len, writeable)))
    IN  IF rv.len < 0
        THEN [s |-> s, Errno |-> rv.errno, ret |-> rv.len,
              branch |-> "error", ok |-> TRUE]
        ELSE IF rv.len <= writeable
        THEN [s |-> Buf(filled, s.readPos_, (s.writePos_ + rv.len) % SizeMod),
              Errno |-> err, ret |-> rv.len,
              branch |-> "direct", ok |-> TRUE]
        ELSE LET a == BufferAppend(Buf(filled, s.readPos_, Len(s.buffer_)),
                                   SubSeq(rv.data, writeable + 1, rv.len))
             IN  [s |-> a.s, Errno |-> err, ret |-> rv.len,
                  branch |-> "overflow", ok |-> a.ok]

\* WriteFd that retrieves everything readable whatever write accepted.
WriteFd_AssumeFull(s, err, wr) ==
    IF wr.len < 0
    THEN [s |-> s, Errno |-> wr.errno, ret |-> wr.len, branch |-> "error"]
    ELSE [s |-> Retrieve(s, ReadableBytes(s)), Errno |-> err, ret |-> wr.len,
          branch |-> "written"]

\* WriteFd that retrieves the result of write without looking at its sign.
WriteFd_NoErrCheck(s, err, wr) ==
    [s |-> Retrieve(s, wr.len % SizeMod),
     Errno |-> IF wr.len < 0 THEN wr.errno ELSE err,
     ret |-> wr.len,
     branch |-> IF wr.len < 0 THEN "error" ELSE "written"]

\* wr is what write did: wr.len its result, wr.errno the errno on failure.
WriteFd(s, err, wr) ==
    IF wr.len < 0
    THEN [s |-> s, Errno |-> wr.errno, ret |-> wr.len, branch |-> "error"]
    ELSE [s |-> Retrieve(s, wr.len), Errno |-> err, ret |-> wr.len,
          branch |-> "written"]

-----------------------------------------------------------------------------
(* State machine: one action per public member function.  last records the *)
(* call that produced the current state: the function, its size argument,  *)
(* its result, the string passed or returned, the errno the system call    *)
(* left (0 when it succeeded), *Errno after the call (the caller sets it   *)
(* to 0 before), the branch taken, the branch of MakeSpace_ taken, and     *)
(* whether a failed assert stopped the process.                            *)

Call(op, len, ret, str, sys, errno, branch, space) ==
    [op |-> op, len |-> len, ret |-> ret, str |-> str, sys |-> sys, errno |-> errno,
     branch |-> branch, space |-> space, aborted |-> FALSE]

\* The object is usable: the process runs and the indices are inside the vector.
Sane(s) == s.readPos_ <= s.writePos_ /\ s.writePos_ <= Len(s.buffer_)

Live == ~last.aborted /\ Sane(self)

\* The call returns and leaves the object as s (the allocator serves at most
\* MaxCap bytes).
Store(s) ==
    /\ Len(s.buffer_) <= MaxCap
    /\ buffer_' = s.buffer_
    /\ readPos_' = s.readPos_
    /\ writePos_' = s.writePos_
    /\ other' = other

\* The call returns with the object as r.s and the record c, or, when an assert
\* on its way failed, a build with asserts stops the process instead.
Finish(r, c) ==
    \/ /\ Store(r.s)
       /\ last' = c
    \/ /\ ~r.ok
       /\ UNCHANGED <<buffer_, readPos_, writePos_, other>>
       /\ last' = [c EXCEPT !.aborted = TRUE]

Init ==
    \E initBuffSize \in 0 .. MaxInitCap :
        /\ buffer_ = Buffer(initBuffSize).buffer_
        /\ readPos_ = Buffer(initBuffSize).readPos_
        /\ writePos_ = Buffer(initBuffSize).writePos_
        /\ other = Buffer(0)
        /\ last = Call("Buffer", initBuffSize, 0, <<>>, 0, 0, "none", "none")

CallEnsureWriteable(len) ==
    /\ Live
    /\ Finish(EnsureWriteable(self, len),
              Call("EnsureWriteable", len, 0, <<>>, 0, 0, "none", SpaceBranch(self, len)))

CallHasWritten(len) ==
    /\ Live
    /\ Store(HasWritten(self, len))
    /\ last' = Call("HasWritten", len, 0, <<>>, 0, 0, "none", "none")

CallRetrieve(len) ==
    /\ Live
    /\ Store(Retrieve(self, len))
    /\ last' = Call("Retrieve", len, 0, <<>>, 0, 0, "none", "none")

CallRetrieveUntil(end) ==
    /\ Live
    /\ Finish(RetrieveUntil(self, end),
              Call("RetrieveUntil", end, 0, <<>>, 0, 0, "none", "none"))

CallRetrieveAll ==
    /\ Live
    /\ Store(RetrieveAll(self))
    /\ last' = Call("RetrieveAll", 0, 0, <<>>, 0, 0, "none", "none")

CallRetrieveAllToStr ==
    /\ Live
    /\ Store(RetrieveAllToStr(self).s)
    /\ last' = Call("RetrieveAllToStr", 0, 0, RetrieveAllToStr(self).str, 0, 0,
                    "none", "none")

CallAppend(str) ==
    /\ Live
    /\ Finish(BufferAppend(self, str),
              Call("Append", Len(str), 0, str, 0, 0, "none", SpaceBranch(self, Len(str))))

\* What readv can do with iov[0] of writeable bytes and iov[1] of ScratchSize.
ReadvOutcomes(writeable) ==
    {[len |-> -1, data |-> <<>>, errno |-> e] : e \in ErrnoSet}
    \cup {[len |-> n, data |-> Stream(first, n), errno |-> 0] :
            n \in 0 .. (writeable + ScratchSize), first \in Data}

\* last.len is WritableBytes() before the call, last.str what readv delivered.
CallReadFd ==
    /\ Live
    /\ \E rv \in ReadvOutcomes(WritableBytes(self)) :
        LET r == ReadFd(self, 0, rv)
            full == Buf(buffer_, readPos_, Len(buffer_))
        IN  Finish(r, Call("ReadFd", WritableBytes(self), r.ret, rv.data, rv.errno, r.Errno,
                           r.branch,
                           IF r.branch = "overflow"
                           THEN SpaceBranch(full, rv.len - WritableBytes(self))
                           ELSE "none"))

\* What write can do when handed count bytes.
WriteOutcomes(count) ==
    {[len |-> -1, errno |-> e] : e \in ErrnoSet}
    \cup {[len |-> k, errno |-> 0] : k \in 0 .. count}

\* last.len is ReadableBytes() before the call.
CallWriteFd ==
    /\ Live
    /\ \E wr \in WriteOutcomes(ReadableBytes(self)) :
        LET r == WriteFd(self, 0, wr)
        IN  /\ Store(r.s)
            /\ last' = Call("WriteFd", ReadableBytes(self), r.ret, <<>>, wr.errno, r.Errno,
                            r.branch, "none")

\* Callers that keep the preconditions of HasWritten and Retrieve and ask for
\* sizes the allocator can serve.
EnsureWriteableStep == \E len \in 0 .. MaxCap : CallEnsureWriteable(len)
HasWrittenStep == \E len \in 0 .. WritableBytes(self) : CallHasWritten(len)
RetrieveStep == \E len \in 0 .. ReadableBytes(self) : CallRetrieve(len)
RetrieveUntilStep == \E end \in readPos_ .. writePos_ : CallRetrieveUntil(end)
AppendStep == \E str \in Strings(MaxLen) : CallAppend(str)

Next ==
    \/ EnsureWriteableStep
    \/ HasWrittenStep
    \/ RetrieveStep
    \/ RetrieveUntilStep
    \/ CallRetrieveAll
    \/ CallRetrieveAllToStr
    \/ AppendStep
    \/ CallReadFd
    \/ CallWriteFd

Spec == Init /\ [][Next]_vars

TypeOK ==
    /\ buffer_ \in UNION {[1 .. n -> Bytes] : n \in 0 .. MaxCap}
    /\ readPos_ \in SizeT
    /\ writePos_ \in SizeT
    /\ last.errno \in {0} \cup ErrnoSet

CursorInv == 0 <= readPos_ /\ readPos_ <= writePos_ /\ writePos_ <= Len(buffer_)

-----------------------------------------------------------------------------
(* Callers that keep the preconditions of HasWritten and Retrieve but pass *)
(* any size_t to EnsureWriteable.                                          *)

EnsureWriteableAnyStep == \E len \in SizeT : CallEnsureWriteable(len)

NextAnyLen ==
    \/ EnsureWriteableAnyStep
    \/ HasWrittenStep
    \/ RetrieveStep
    \/ RetrieveUntilStep
    \/ CallRetrieveAll
    \/ CallRetrieveAllToStr
    \/ AppendStep
    \/ CallReadFd
    \/ CallWriteFd

SpecAnyLen == Init /\ [][NextAnyLen]_vars

(* Callers that pass any size_t to HasWritten and Retrieve, and any pointer *)
(* into the vector to RetrieveUntil.                                        *)

HasWrittenAnyStep == \E len \in SizeT : CallHasWritten(len)
RetrieveAnyStep == \E len \in SizeT : CallRetrieve(len)
RetrieveUntilAnyStep == \E end \in 0 .. Len(buffer_) : CallRetrieveUntil(end)

NextUnchecked ==
    \/ EnsureWriteableStep
    \/ HasWrittenAnyStep
    \/ RetrieveAnyStep
    \/ RetrieveUntilAnyStep
    \/ CallRetrieveAll
    \/ CallRetrieveAllToStr
    \/ AppendStep
    \/ CallReadFd
    \/ CallWriteFd

SpecUnchecked == Init /\ [][NextUnchecked]_vars

\* In a step of Spec no assert fails.
NoAbort == ~last.aborted

-----------------------------------------------------------------------------
(* Two objects: a buffer that is appended to and retrieved from, and a     *)
(* second one, built by a construction, an Append and a Retrieve, that is  *)
(* appended to the first.                                                  *)

OtherBuffers ==
    {Retrieve(BufferAppend(Buffer(1), str).s, k) :
        <<str, k>> \in {x \in Strings(MaxLen) \X (0 .. 1) : x[2] <= Len(x[1])}}

InitTwo ==
    \E initBuffSize \in 0 .. MaxInitCap, buff \in OtherBuffers :
        /\ buffer_ = Buffer(initBuffSize).buffer_
        /\ readPos_ = Buffer(initBuffSize).readPos_
        /\ writePos_ = Buffer(initBuffSize).writePos_
        /\ other = buff
        /\ last = Call("Buffer", initBuffSize, 0, <<>>, 0, 0, "none", "none")

\* last.len is buff.ReadableBytes(), last.str the bytes buff.Peek() shows.
CallAppendBuffer ==
    /\ Live
    /\ LET r == AppendBuffer(self, other)
           c == Call("AppendBuffer", ReadableBytes(other), 0, Readable(other), 0, 0,
                     "none", SpaceBranch(self, ReadableBytes(other)))
       IN  \/ /\ Len(r.s.buffer_) <= MaxCap
              /\ buffer_' = r.s.buffer_
              /\ readPos_' = r.s.readPos_
              /\ writePos_' = r.s.writePos_
              /\ other' = r.buff
              /\ last' = c
           \/ /\ ~r.ok
              /\ UNCHANGED <<buffer_, readPos_, writePos_, other>>
              /\ last' = [c EXCEPT !.aborted = TRUE]

NextTwo ==
    \/ CallAppendBuffer
    \/ AppendStep
    \/ RetrieveStep

SpecTwo == InitTwo /\ [][NextTwo]_vars

-----------------------------------------------------------------------------
(* A caller that drains the buffer: it holds a buffer that was built,      *)
(* appended to twice and retrieved from, and calls WriteFd again as long   *)
(* as bytes are readable, on a descriptor that accepts at least one byte   *)
(* each time.  last.str collects the bytes write accepted over the calls.  *)

\* The buffers draining starts from, with the Retrieve that came last.
DrainStarts ==
    {[s |-> Retrieve(BufferAppend(BufferAppend(Buffer(x[1]), x[2]).s, x[3]).s, x[4]),
      len |-> x[4]] :
        x \in {y \in (0 .. MaxInitCap) \X Strings(MaxLen) \X Strings(MaxLen) \X (0 .. 1) :
                 /\ y[4] <= Len(y[2]) + Len(y[3])
                 /\ Len(BufferAppend(BufferAppend(Buffer(y[1]), y[2]).s, y[3]).s.buffer_)
                        <= MaxCap}}

InitDrain ==
    \E d \in DrainStarts :
        /\ buffer_ = d.s.buffer_
        /\ readPos_ = d.s.readPos_
        /\ writePos_ = d.s.writePos_
        /\ other = Buffer(0)
        /\ last = Call("Retrieve", d.len, 0, <<>>, 0, 0, "none", "none")

DrainWriteFd ==
    /\ Live
    /\ ReadableBytes(self) > 0
    /\ \E k \in 1 .. ReadableBytes(self) :
        LET r == WriteFd(self, 0, [len |-> k, errno |-> 0])
            sent == IF last.op = "WriteFd" THEN last.str ELSE <<>>
        IN  /\ Store(r.s)
            /\ last' = Call("WriteFd", ReadableBytes(self), r.ret,
                            sent \o Range(buffer_, readPos_, readPos_ + k),
                            0, r.Errno, r.branch, "none")

NextDrain == DrainWriteFd

SpecDrain == InitDrain /\ [][NextDrain]_vars /\ WF_vars(DrainWriteFd)

-----------------------------------------------------------------------------
(* Properties.  A step is a call of the function last' names, made on the  *)
(* object self and leaving the object self2.                               *)

Returned(op) == last'.op = op /\ ~last'.aborted

\* C1: whenever HasWritten and Retrieve are called within their preconditions,
\* every reachable state has 0 <= readPos_ <= writePos_ <= buffer_.size().
\* Stated over SpecAnyLen, where EnsureWriteable takes any size_t.
C1_CursorOrder ==
    0 <= readPos_ /\ readPos_ <= writePos_ /\ writePos_ <= Len(buffer_)

\* C2: Retrieve(len) with len > ReadableBytes() is rejected: readPos_ keeps its
\* value, so it does not pass writePos_ and ReadableBytes() does not wrap.
\* Stated over SpecUnchecked.
C2_RetrieveBeyondRejected ==
    [][(Returned("Retrieve") /\ last'.len > ReadableBytes(self))
        => /\ readPos_' = readPos_
           /\ readPos_' <= writePos_'
           /\ ReadableBytes(self2) <= Len(buffer_')]_vars

\* C3: Append of a payload leaves the bytes that were readable in place at the
\* front of the readable region, in order, and puts the payload right behind
\* them (at the write index), whether it compacts, grows or does neither.
C3_AppendKeepsReadable ==
    [][Returned("Append")
        => /\ ReadableBytes(self2) = ReadableBytes(self) + last'.len
           /\ SubSeq(Readable(self2), 1, ReadableBytes(self)) = Readable(self)
           /\ SubSeq(Readable(self2), ReadableBytes(self) + 1, ReadableBytes(self2))
                = last'.str
           /\ Range(buffer_', writePos_' - last'.len, writePos_') = last'.str]_vars

\* An Append that compacted, with bytes readable before it and a payload behind.
C3_Witness ==
    /\ last.op = "Append" /\ ~last.aborted
    /\ last.space = "compact"
    /\ last.len > 0
    /\ ReadableBytes(self) > last.len + 1

\* C4: appending B to a freshly constructed buffer makes Peek() show exactly B,
\* with ReadableBytes() = length of B, for every capacity and every B.
C4_RoundTrip ==
    [][(last.op = "Buffer" /\ Returned("Append"))
        => /\ ReadableBytes(self2) = Len(last'.str)
           /\ Range(buffer_', Peek(self2), Peek(self2) + ReadableBytes(self2))
                = last'.str]_vars

\* B is longer than the capacity the buffer was built with and was appended to
\* an empty buffer: the vector was grown from write index 0.
C4_Witness ==
    /\ last.op = "Append" /\ ~last.aborted
    /\ last.space = "grow"
    /\ last.len = MaxLen
    /\ readPos_ = 0 /\ writePos_ = last.len
    /\ Readable(self) = last.str

\* C5: EnsureWriteable(len) with any len leaves WritableBytes() >= len and
\* changes neither ReadableBytes() nor the readable bytes.
\* Stated over SpecAnyLen.
C5_EnsureWriteable ==
    [][last'.op = "EnsureWriteable"
        => /\ WritableBytes(self2) >= last'.len
           /\ ReadableBytes(self2) = ReadableBytes(self)
           /\ Readable(self2) = Readable(self)]_vars

\* C6: a ReadFd that receives more bytes than were writable leaves the readable
\* region as the old readable bytes followed by all the received bytes in the
\* order delivered; ReadableBytes() grows by the count and the vector does not
\* shrink.
C6_ReadFdOverflow ==
    [][(Returned("ReadFd") /\ last'.ret > last'.len)
        => /\ Readable(self2) = Readable(self) \o last'.str
           /\ ReadableBytes(self2) = ReadableBytes(self) + last'.ret
           /\ Len(last'.str) = last'.ret
           /\ Len(buffer_') >= Len(buffer_)]_vars

\* A ReadFd that filled a non-empty writable region, took two more bytes
\* through the scratch array and grew the vector for them.
C6_Witness ==
    /\ last.op = "ReadFd" /\ ~last.aborted
    /\ last.branch = "overflow"
    /\ last.space = "grow"
    /\ last.len > 0
    /\ last.ret >= last.len + 2

\* C7: a ReadFd that receives 0 <= n <= WritableBytes() bytes only advances
\* writePos_ by n: readPos_ and the size of the vector stay, the overflow branch
\* and MakeSpace_ are not taken, the bytes land behind the readable ones, and
\* for n = WritableBytes() the write index ends at buffer_.size().
C7_ReadFdFits ==
    [][(Returned("ReadFd") /\ 0 <= last'.ret /\ last'.ret <= last'.len)
        => /\ writePos_' = writePos_ + last'.ret
           /\ readPos_' = readPos_
           /\ Len(buffer_') = Len(buffer_)
           /\ last'.branch = "direct"
           /\ last'.space = "none"
           /\ Readable(self2) = Readable(self) \o last'.str
           /\ (last'.ret = last'.len => writePos_' = Len(buffer_'))]_vars

\* A ReadFd that received exactly the writable count, at least two bytes.
C7_Witness ==
    /\ last.op = "ReadFd" /\ ~last.aborted
    /\ last.ret = last.len
    /\ last.len >= 2
    /\ writePos_ = Len(buffer_)

\* C8: when readv fails, ReadFd returns the negative result, stores the errno
\* readv left in *Errno, and changes neither index, nor the vector.
C8_ReadFdError ==
    [][(last'.op = "ReadFd" /\ last'.sys # 0)
        => /\ last'.ret < 0
           /\ last'.errno = last'.sys
           /\ ~last'.aborted
           /\ UNCHANGED <<buffer_, readPos_, writePos_>>]_vars

\* A failed ReadFd on a buffer that holds readable bytes and free space.
C8_Witness ==
    /\ last.op = "ReadFd"
    /\ last.ret < 0
    /\ last.errno = 11
    /\ ReadableBytes(self) > 0
    /\ WritableBytes(self) > 0

\* C9: a WriteFd on which write accepts k bytes advances readPos_ by k and
\* changes nothing else; the readable bytes left are the old ones without the
\* first k, and when k is all of them ReadableBytes() is 0.
C9_WriteFdPartial ==
    [][(Returned("WriteFd") /\ last'.ret >= 0)
        => /\ readPos_' = readPos_ + last'.ret
           /\ writePos_' = writePos_
           /\ buffer_' = buffer_
           /\ Readable(self2)
                = SubSeq(Readable(self), last'.ret + 1, ReadableBytes(self))
           /\ (last'.ret = last'.len => ReadableBytes(self2) = 0)]_vars

\* write accepted half of the readable bytes and the other half is still there.
C9_Witness ==
    /\ last.op = "WriteFd"
    /\ last.ret > 0
    /\ 2 * last.ret = last.len
    /\ ReadableBytes(self) = last.ret

\* C10: when write fails, WriteFd returns the negative result, stores the errno
\* write left in *Errno, and changes neither index, nor the vector.
C10_WriteFdError ==
    [][(last'.op = "WriteFd" /\ last'.sys # 0)
        => /\ last'.ret < 0
           /\ last'.errno = last'.sys
           /\ UNCHANGED <<buffer_, readPos_, writePos_>>]_vars

\* A failed WriteFd on a buffer that holds readable bytes.
C10_Witness ==
    /\ last.op = "WriteFd"
    /\ last.ret < 0
    /\ last.errno = 4
    /\ ReadableBytes(self) > 0

\* C11: Retrieve(len) and RetrieveUntil(end), called within the precondition,
\* move readPos_ forward by len (to end) and change nothing else: readPos_ does
\* not decrease, writePos_ and the vector (size and bytes) stay.
C11_RetrieveOnlyAdvances ==
    [][(Returned("Retrieve") \/ Returned("RetrieveUntil"))
        => /\ Returned("Retrieve") => readPos_' = readPos_ + last'.len
           /\ Returned("RetrieveUntil") => readPos_' = readPos_ + (last'.len - Peek(self))
           /\ readPos_' >= readPos_
           /\ writePos_' = writePos_
           /\ Len(buffer_') = Len(buffer_)
           /\ buffer_' = buffer_]_vars

\* A Retrieve that consumed the last readable bytes of a buffer that had
\* already been read from.
C11_Witness ==
    /\ last.op = "Retrieve"
    /\ last.len >= 1
    /\ readPos_ > last.len
    /\ writePos_ = readPos_

\* C12: RetrieveAll leaves readPos_ = writePos_ = 0, ReadableBytes() = 0, the
\* size of the vector as it was and WritableBytes() = buffer_.size().
C12_RetrieveAllResets ==
    [][Returned("RetrieveAll")
        => /\ readPos_' = 0
           /\ writePos_' = 0
           /\ ReadableBytes(self2) = 0
           /\ Len(buffer_') = Len(buffer_)
           /\ WritableBytes(self2) = Len(buffer_')]_vars

\* A RetrieveAll on a vector that had grown beyond every initial size.
C12_Witness ==
    /\ last.op = "RetrieveAll"
    /\ Len(buffer_) > MaxInitCap
    /\ readPos_ = 0 /\ writePos_ = 0

\* C13: RetrieveAllToStr returns the bytes between readPos_ and writePos_ as
\* they were before the call, in order, and leaves both indices at 0.
C13_RetrieveAllToStr ==
    [][Returned("RetrieveAllToStr")
        => /\ Len(last'.str) = writePos_ - readPos_
           /\ \A i \in 1 .. (writePos_ - readPos_) :
                last'.str[i] = buffer_[readPos_ + i]
           /\ readPos_' = 0
           /\ writePos_' = 0
           /\ ReadableBytes(self2) = 0
           /\ Len(buffer_') = Len(buffer_)]_vars

\* A RetrieveAllToStr that returned two different bytes.
C13_Witness ==
    /\ last.op = "RetrieveAllToStr"
    /\ Len(last.str) >= 2
    /\ last.str[1] # last.str[2]
    /\ readPos_ = 0 /\ writePos_ = 0

\* C15: HasWritten(len) with len > WritableBytes() is rejected: writePos_ keeps
\* its value, so it does not pass buffer_.size() and WritableBytes() does not
\* wrap.  Stated over SpecUnchecked.
C15_HasWrittenBeyondRejected ==
    [][(Returned("HasWritten") /\ last'.len > WritableBytes(self))
        => /\ writePos_' = writePos_
           /\ writePos_' <= Len(buffer_')
           /\ WritableBytes(self2) <= Len(buffer_')]_vars

\* A request for len bytes that MakeSpace_ serves by moving the readable bytes.
Compacts(len) ==
    /\ WritableBytes(self) < len
    /\ len <= WritableBytes(self) + PrependableBytes(self)

\* C16: a request for len bytes with WritableBytes() < len <= WritableBytes() +
\* PrependableBytes() is served in place: the size of the vector stays,
\* readPos_ becomes 0, the readable bytes are the same sequence at offset 0
\* (followed by the payload when the request came from Append or ReadFd).  So
\* a buffer of size n whose n/2 bytes were appended and retrieved takes an
\* Append of n bytes with readPos_ = 0, ReadableBytes() = n and size n.
C16_CompactsInPlace ==
    [][/\ (Returned("EnsureWriteable") /\ Compacts(last'.len))
            => /\ Len(buffer_') = Len(buffer_)
               /\ readPos_' = 0
               /\ writePos_' = ReadableBytes(self)
               /\ Readable(self2) = Readable(self)
       /\ (Returned("Append") /\ Compacts(last'.len))
            => /\ Len(buffer_') = Len(buffer_)
               /\ readPos_' = 0
               /\ writePos_' = ReadableBytes(self) + last'.len
               /\ Readable(self2) = Readable(self) \o last'.str
       /\ (Returned("ReadFd") /\ last'.ret > last'.len
                              /\ last'.ret - last'.len <= PrependableBytes(self))
            => /\ Len(buffer_') = Len(buffer_)
               /\ readPos_' = 0
               /\ Readable(self2) = Readable(self) \o last'.str]_vars

\* The scenario: everything appended so far was retrieved, and an Append of as
\* many bytes as the vector holds was served by compaction.
C16_Witness ==
    /\ last.op = "Append" /\ ~last.aborted
    /\ last.space = "compact"
    /\ last.len = Len(buffer_)
    /\ readPos_ = 0
    /\ ReadableBytes(self) = Len(buffer_)
    /\ Len(buffer_) <= MaxInitCap

\* C17: a request for len bytes with WritableBytes() + PrependableBytes() < len
\* grows the vector to at least writePos_ + len bytes, leaves both indices and
\* leaves every byte of the vector at its index.  Stated over SpecAnyLen.
C17_GrowthKeepsBytes ==
    [][(last'.op = "EnsureWriteable"
            /\ WritableBytes(self) + PrependableBytes(self) < last'.len)
        => /\ Len(buffer_') >= writePos_ + last'.len
           /\ readPos_' = readPos_
           /\ writePos_' = writePos_
           /\ \A i \in 1 .. Len(buffer_) :
                i <= Len(buffer_') /\ buffer_'[i] = buffer_[i]]_vars

\* C18: EnsureWriteable(len) with WritableBytes() >= len changes nothing and
\* does not enter MakeSpace_; a second EnsureWriteable(len) right after a first
\* one changes nothing.
C18_EnsureWriteableNoOp ==
    [][/\ (Returned("EnsureWriteable") /\ WritableBytes(self) >= last'.len)
            => /\ UNCHANGED <<buffer_, readPos_, writePos_>>
               /\ last'.space = "none"
       /\ (Returned("EnsureWriteable") /\ last.op = "EnsureWriteable"
                                       /\ last'.len = last.len)
            => UNCHANGED <<buffer_, readPos_, writePos_>>]_vars

\* An EnsureWriteable that found the space there, on a buffer with consumed
\* bytes in front of readable ones.
C18_Witness ==
    /\ last.op = "EnsureWriteable" /\ ~last.aborted
    /\ last.space = "none"
    /\ last.len > 0
    /\ readPos_ > 0
    /\ ReadableBytes(self) > 0

\* C20: the size of the vector never decreases, and it increases only in an
\* Append, EnsureWriteable or overflowing ReadFd whose request for len bytes
\* has ReadableBytes() + len > buffer_.size().  Stated over SpecAnyLen.
C20_SizeOnlyGrows ==
    [][/\ Len(buffer_') >= Len(buffer_)
       /\ Len(buffer_') > Len(buffer_)
            => \/ /\ last'.op \in {"Append", "EnsureWriteable"}
                  /\ ReadableBytes(self) + last'.len > Len(buffer_)
               \/ /\ last'.op = "ReadFd"
                  /\ last'.ret > last'.len
                  /\ (Len(buffer_) - readPos_) + (last'.ret - last'.len)
                        > Len(buffer_)]_vars

\* C14: Append(const Buffer &) copies: afterwards the readable bytes are the
\* old ones followed by the readable bytes of the other buffer, and the other
\* buffer has the indices, the size and the bytes it had.
C14_AppendBufferCopies ==
    [][Returned("AppendBuffer")
        => /\ Readable(self2) = Readable(self) \o Readable(other)
           /\ other'.readPos_ = other.readPos_
           /\ other'.writePos_ = other.writePos_
           /\ Len(other'.buffer_) = Len(other.buffer_)
           /\ Readable(other') = Readable(other)
           /\ other'.buffer_ = other.buffer_]_vars

\* An AppendBuffer from a buffer that had been read from, onto a buffer that
\* held bytes of its own.
C14_Witness ==
    /\ last.op = "AppendBuffer" /\ ~last.aborted
    /\ other.readPos_ > 0
    /\ ReadableBytes(other) > 0
    /\ ReadableBytes(self) > ReadableBytes(other)
    /\ last.str = Readable(other)

\* C19: when WriteFd is called again as long as bytes are readable, nothing is
\* appended in between and write accepts at least one byte each time, the
\* buffer ends up with ReadableBytes() = 0, and the bytes write accepted over
\* the calls, put together, are the bytes that were readable at the start, in
\* order.  Stated over SpecDrain.
C19_DrainByRetry ==
    \A c \in Strings(2 * MaxLen) :
        (last.op = "Retrieve" /\ Readable(self) = c)
            ~> /\ ReadableBytes(self) = 0
               /\ c # <<>> => (last.op = "WriteFd" /\ last.str = c)

\* A buffer drained by more than one WriteFd, of three bytes or more.
C19_Witness ==
    /\ last.op = "WriteFd"
    /\ ReadableBytes(self) = 0
    /\ Len(last.str) >= 3
    /\ last.ret < Len(last.str)
    /\ last.str[1] # last.str[2]

====
